---- MODULE Spec2Model ----
(***************************************************************************)
(* Chatbot Alura: the Streamlit script index.py and the answering logic of *)
(* projeto_chatbot2.py.                                                     *)
(*                                                                         *)
(* A Python str is modelled as a finite sequence of non-empty chunks of    *)
(* text ("" is << >>); concatenation is \o, truthiness is Len > 0, and     *)
(* "a in b" is the occurrence of a as a contiguous run of b.  Python       *)
(* objects that may be None are tagged records, so that truthiness is      *)
(* computed as Python computes it.  Calls into the hosted services         *)
(* (embedding, similarity search, chat completion) are opaque: their       *)
(* outcome, a value or an exception, is chosen by the environment.         *)
(***************************************************************************)
EXTENDS Integers, Sequences, FiniteSets, TLC

VARIABLES
    environ,        \* os.environ, restricted to GOOGLE_API_KEY
    envFile,        \* the .env file beside the code
    csvFile,        \* base_empresa.csv beside the code
    cache,          \* st.cache_resource / st.cache_data: function name -> value
    calls,          \* how many times each construction body has been entered
    session_state,  \* st.session_state of the current browser session
    widget,         \* the chat input bar is on the page (rendered by the last run)
    pc,             \* position of the running script ("idle": no run in progress)
    locals,         \* the script's module-level names api_key, documents, ...
    resp,           \* the last get_bot_response invocation: arguments, outcomes, result
    hist,           \* history: session number, runs started, outcomes of the steps
    fnArgs          \* arguments of the stand-alone calls (function-level specification)

vars == <<environ, envFile, csvFile, cache, calls, session_state, widget, pc,
          locals, resp, hist, fnArgs>>

-----------------------------------------------------------------------------
(* Bounds *)

MaxRuns == 4        \* script runs started in one process
MaxSessions == 2    \* browser sessions opened in one process

-----------------------------------------------------------------------------
(* Python values *)

NoneV == [type |-> "NoneType"]
Str(s) == [type |-> "str", value |-> s]
List(xs) == [type |-> "list", items |-> xs]

Truthy(v) ==
    CASE v.type = "NoneType" -> FALSE
      [] v.type = "str"      -> Len(v.value) > 0
      [] v.type = "list"     -> Len(v.items) > 0
      [] OTHER               -> TRUE

Min(a, b) == IF a <= b THEN a ELSE b

RECURSIVE Join(_, _)
Join(sep, parts) ==
    IF Len(parts) = 0 THEN << >>
    ELSE IF Len(parts) = 1 THEN parts[1]
    ELSE parts[1] \o sep \o Join(sep, Tail(parts))

Contains(s, sub) ==
    \E i \in 0..(Len(s) - Len(sub)) : SubSeq(s, i + 1, i + Len(sub)) = sub

IsPrefix(s, t) == Len(s) <= Len(t) /\ SubSeq(t, 1, Len(s)) = s

-----------------------------------------------------------------------------
(* projeto_chatbot2.py *)

KEY == "GOOGLE_API_KEY"

K == 5

Document(text) == [page_content |-> text]
Retriever(documents) == [type |-> "VectorStoreRetriever", docs |-> documents, k |-> K]
Chat == [type |-> "Chat", model |-> "gemini-1.5-flash"]

Return(v) == [kind |-> "return", value |-> v]
Raise(e)  == [kind |-> "raise", exc |-> e]
Stop      == [kind |-> "stop"]

EnvironGet(env, name) == IF name \in DOMAIN env THEN Str(env[name]) ELSE NoneV

\* dotenv.load_dotenv(path): override is off, a name already in the
\* environment, even with an empty value, keeps its value.
LoadDotenv(env, file) ==
    [n \in DOMAIN env \cup DOMAIN file.vars |->
        IF n \in DOMAIN env THEN env[n] ELSE file.vars[n]]

LoadApiKey(env, file) ==
    IF ~file.exists THEN [out |-> Raise("FileNotFoundError"), environ |-> env]
    ELSE LET env2 == LoadDotenv(env, file)
             api_key == EnvironGet(env2, KEY)
         IN  IF ~Truthy(api_key)
             THEN [out |-> Raise("ValueError"), environ |-> env2]
             ELSE [out |-> Return(api_key), environ |-> env2]

\* CSVLoader: one Document per row, "column: value" lines joined by newlines.
RowText(row) == Join(<<"\n">>, [i \in 1..Len(row) |-> <<row[i][1], ": ", row[i][2]>>])

LoadData(file) ==
    IF ~file.exists THEN Raise("FileNotFoundError")
    ELSE IF ~file.parses THEN Raise("IOError")
    ELSE Return([i \in 1..Len(file.rows) |-> Document(RowText(file.rows[i]))])

InitializeRetriever(documents, api_key, embedOk) ==
    IF ~Truthy(List(documents)) THEN Return(NoneV)
    ELSE IF embedOk THEN Return(Retriever(documents))
    ELSE Raise("RuntimeError")

InitializeGeminiChat(api_key, outcome) ==
    CASE outcome = "ok"             -> Return(Chat)
      [] outcome = "GoogleAPIError" -> Raise("ConnectionError")
      [] OTHER                      -> Raise("RuntimeError")

ERR_NO_SESSION == <<"Erro interno: A sessão do chat não foi inicializada corretamente.">>
ERR_CONTEXT == <<"Não foi possível buscar contexto na base de dados devido a um erro.">>
NO_CONTEXT == <<"Nenhum contexto da base de dados encontrado.">>
SEP == <<"\n---\n">>
ERR_SEND == <<"Ocorreu um erro", " durante a interação com o modelo de chat: ">>

PROMPT_HEAD == <<"\n    Contexto de informações da base de dados:\n    ">>
PROMPT_MID == <<"\n\n    ---\n\n    Pergunta do usuário: ">>
PROMPT_TAIL ==
    <<"\n\n    ---\n\n    Com base no contexto fornecido acima (se houver) e na pergunta do usuário, responda de forma útil e concisa.\n    - Se a resposta puder ser encontrada no contexto, use as informações fornecidas.\n    - Se a resposta não estiver no contexto, mas você tiver conhecimento geral relevante, utilize-o para formar a resposta.\n    - Se a resposta não estiver no contexto e você também não tiver conhecimento generalizado sobre o assunto, informe que a informação específica não foi encontrada na base de dados.\n    Mantenha a persona de assistente pessoal da empresa.\n    ">>

\* A lookup failure handled by dropping the context instead of reporting it.
FormatContext_DropsFailure(question, retriever, lookup) ==
    IF Truthy(retriever)
    THEN [queries |-> <<question>>,
          text |-> IF lookup.raises THEN << >>
                   ELSE Join(SEP, [i \in 1..Len(lookup.docs) |-> lookup.docs[i].page_content])]
    ELSE [queries |-> << >>, text |-> << >>]

\* Only the best match is kept.
FormatContext_FirstRecordOnly(question, retriever, lookup) ==
    IF Truthy(retriever)
    THEN [queries |-> <<question>>,
          text |-> IF lookup.raises THEN ERR_CONTEXT
                   ELSE IF Len(lookup.docs) = 0 THEN << >>
                   ELSE lookup.docs[1].page_content]
    ELSE [queries |-> << >>, text |-> << >>]

\* Lines 109-119: contexto_formatado and the queries passed to retriever.invoke.
FormatContext(question, retriever, lookup) ==
    IF Truthy(retriever)
    THEN [queries |-> <<question>>,
          text |-> IF lookup.raises THEN ERR_CONTEXT
                   ELSE Join(SEP, [i \in 1..Len(lookup.docs) |-> lookup.docs[i].page_content])]
    ELSE [queries |-> << >>, text |-> << >>]

\* The f-string without its "or placeholder" expression.
ContextBlock_NoPlaceholder(contexto_formatado) == contexto_formatado

\* Lines 122-137: the f-string.
ContextBlock(contexto_formatado) ==
    IF Len(contexto_formatado) > 0 THEN contexto_formatado ELSE NO_CONTEXT

PromptFinal(contexto_formatado, question) ==
    PROMPT_HEAD \o ContextBlock(contexto_formatado) \o PROMPT_MID \o question \o PROMPT_TAIL

\* The send without its try/except.
SendMessage_Propagates(send) ==
    IF send.raises THEN [ret |-> << >>, raised |-> TRUE]
    ELSE [ret |-> send.text, raised |-> FALSE]

\* Lines 139-145: the send and its except clause.
SendMessage(send) ==
    IF send.raises THEN [ret |-> ERR_SEND \o send.detail, raised |-> FALSE]
    ELSE [ret |-> send.text, raised |-> FALSE]

\* The function without its guard on chat_session.
GetBotResponse_NoSessionCheck(question, retriever, chat_session, lookup, send) ==
    LET ctx == FormatContext(question, retriever, lookup)
        prompt_final == PromptFinal(ctx.text, question)
        r == SendMessage(send)
    IN  [ret |-> r.ret, raised |-> r.raised, queries |-> ctx.queries,
         sent |-> <<prompt_final>>]

\* A failed send attempted a second time before giving up.
GetBotResponse_RetriesSend(question, retriever, chat_session, lookup, send) ==
    IF ~Truthy(chat_session)
    THEN [ret |-> ERR_NO_SESSION, raised |-> FALSE, queries |-> << >>, sent |-> << >>]
    ELSE LET ctx == FormatContext(question, retriever, lookup)
             prompt_final == PromptFinal(ctx.text, question)
             r == SendMessage(send)
         IN  [ret |-> r.ret, raised |-> r.raised, queries |-> ctx.queries,
              sent |-> IF send.raises THEN <<prompt_final, prompt_final>>
                       ELSE <<prompt_final>>]

GetBotResponse(question, retriever, chat_session, lookup, send) ==
    IF ~Truthy(chat_session)
    THEN [ret |-> ERR_NO_SESSION, raised |-> FALSE, queries |-> << >>, sent |-> << >>]
    ELSE LET ctx == FormatContext(question, retriever, lookup)
             prompt_final == PromptFinal(ctx.text, question)
             r == SendMessage(send)
         IN  [ret |-> r.ret, raised |-> r.raised, queries |-> ctx.queries,
              sent |-> <<prompt_final>>]

-----------------------------------------------------------------------------
(* The environment: what the opaque calls may answer *)

SendFails(details) == {[raises |-> TRUE, detail |-> e] : e \in details}
SendReplies(texts) == {[raises |-> FALSE, text |-> t] : t \in texts}

SendOutcomes ==
    SendFails({<<"503 UNAVAILABLE">>}) \cup SendReplies({<<"Nosso horário é das 9h às 18h.">>})

\* What a similarity search over docs may return: at most k of the indexed
\* records, each at most once, in any order.
Selections(docs, k) ==
    LET n == Len(docs)
        idx == UNION {[1..m -> 1..n] : m \in 0..Min(k, n)}
        inj == {f \in idx : \A i, j \in DOMAIN f : i # j => f[i] # f[j]}
    IN  {[i \in DOMAIN f |-> docs[f[i]]] : f \in inj}

NoLookup == [raises |-> FALSE, docs |-> << >>]

LookupOutcomes(retriever) ==
    IF Truthy(retriever)
    THEN {[raises |-> TRUE, detail |-> <<"index error">>]}
         \cup {[raises |-> FALSE, docs |-> s] : s \in Selections(retriever.docs, retriever.k)}
    ELSE {NoLookup}

Row1 == << <<"Pergunta", "Qual o horário de atendimento?">>, <<"Resposta", "Office hours: 9am-6pm">> >>
Row2 == << <<"Pergunta", "Onde fica a sede?">>, <<"Resposta", "São Paulo">> >>

CsvFiles ==
    {[exists |-> FALSE, parses |-> FALSE, rows |-> << >>],
     [exists |-> TRUE, parses |-> FALSE, rows |-> << >>],
     [exists |-> TRUE, parses |-> TRUE, rows |-> << >>],
     [exists |-> TRUE, parses |-> TRUE, rows |-> <<Row1>>],
     [exists |-> TRUE, parses |-> TRUE, rows |-> <<Row1, Row2>>]}

NoVars == [n \in {} |-> << >>]
KeyIs(v) == [n \in {KEY} |-> v]

Environs == {NoVars, KeyIs(<< >>), KeyIs(<<"key-from-environment">>)}

EnvFiles ==
    {[exists |-> FALSE, vars |-> NoVars],
     [exists |-> TRUE, vars |-> KeyIs(<< >>)],
     [exists |-> TRUE, vars |-> KeyIs(<<"key-from-file">>)]}

UserQuestions == {<<"What are your office hours?">>, <<"Quem fundou a empresa?">>}

-----------------------------------------------------------------------------
(* index.py *)

\* The names bound in index.py's module namespace when line 95 runs.
IndexNames ==
    {"st", "os", "load_api_key", "load_data", "initialize_retriever",
     "initialize_gemini_chat", "get_bot_response", "load_config",
     "get_cached_documents", "get_cached_retriever", "get_cached_chat_session"}

\* The body of load_config; reading a name index.py does not bind raises NameError.
LoadConfigBody(env, file) ==
    LET api_key == EnvironGet(env, KEY) IN
    IF Truthy(api_key) THEN [out |-> Return(api_key), environ |-> env]
    ELSE IF "ENV_FILE" \notin IndexNames THEN [out |-> Raise("NameError"), environ |-> env]
    ELSE IF file.exists
         THEN IF "load_dotenv" \notin IndexNames
              THEN [out |-> Raise("NameError"), environ |-> env]
              ELSE LET env2 == LoadDotenv(env, file)
                       api_key2 == EnvironGet(env2, KEY)
                   IN  IF Truthy(api_key2)
                       THEN [out |-> Return(api_key2), environ |-> env2]
                       ELSE [out |-> Stop, environ |-> env2]
         ELSE [out |-> Stop, environ |-> env]

GetCachedDocumentsBody(file) ==
    LET r == LoadData(file) IN
    IF r.kind = "raise" THEN Stop ELSE Return(List(r.value))

\* The except clause stopping the script, as the other two cached loaders do.
GetCachedRetrieverBody_Stops(documents, api_key, embedOk) ==
    LET r == InitializeRetriever(documents.items, api_key, embedOk) IN
    IF r.kind = "raise" THEN Stop ELSE r

GetCachedRetrieverBody(documents, api_key, embedOk) ==
    LET r == InitializeRetriever(documents.items, api_key, embedOk) IN
    IF r.kind = "raise" THEN Return(NoneV) ELSE r

GetCachedChatSessionBody(api_key, outcome) ==
    LET r == InitializeGeminiChat(api_key, outcome) IN
    IF r.kind = "raise" THEN Stop ELSE r

\* st.cache_resource / st.cache_data: the value a call returned is stored under the
\* function's name (the underscore arguments are not part of the key); a call
\* that raised or stopped the script stores nothing.
Miss == [hit |-> FALSE]

\* The functions called without the caching decorator.
Memo_Forgets(c, name, out) == c

Memo(c, name, out) ==
    IF out.kind = "return" THEN [c EXCEPT ![name] = [hit |-> TRUE, value |-> out.value]]
    ELSE c

Resources == {"load_config", "get_cached_documents", "get_cached_retriever",
              "get_cached_chat_session"}

NoLocals == [api_key |-> NoneV, documents |-> NoneV, retriever |-> NoneV,
             chat_session |-> NoneV, prompt |-> NoneV]

NoResp == [called |-> FALSE]

GREETING == <<"Olá! Como posso ajudar hoje?">>
GREETING_ERROR == <<"Erro ao iniciar o chatbot. Por favor, verifique as mensagens de erro acima.">>

Message(role, content) == [role |-> role, content |-> content]

NoState == [n \in {} |-> << >>]
HasMessages == "messages" \in DOMAIN session_state
Messages == IF HasMessages THEN session_state["messages"] ELSE << >>
WithMessages(ms) == [n \in {"messages"} |-> ms]

Entered(name) == [calls EXCEPT !.entered[name] = @ + 1]
Finished(c, name, out) ==
    IF out.kind = "return" THEN [c EXCEPT !.returned[name] = @ + 1] ELSE c

\* The script run ends early: st.stop() or an uncaught exception.
Halt(where, h) ==
    /\ pc' = "idle"
    /\ widget' = FALSE
    /\ locals' = NoLocals
    /\ hist' = [h EXCEPT !.halt = where]

Init ==
    /\ environ \in Environs
    /\ envFile \in EnvFiles
    /\ csvFile \in CsvFiles
    /\ cache = [n \in Resources |-> Miss]
    /\ calls = [entered |-> [n \in Resources |-> 0], returned |-> [n \in Resources |-> 0]]
    /\ session_state = NoState
    /\ widget = FALSE
    /\ pc = "idle"
    /\ locals = NoLocals
    /\ resp = NoResp
    /\ hist = [sid |-> 0, runs |-> 0, halt |-> "none", config |-> "none",
               retr |-> "none", sends |-> 0, queries |-> 0, prevFailed |-> FALSE]
    /\ fnArgs = [question |-> << >>, retriever |-> NoneV, chat_session |-> NoneV]

StartRun(prompt) ==
    /\ pc = "idle"
    /\ hist.runs < MaxRuns
    /\ pc' = "load_config"
    /\ locals' = [NoLocals EXCEPT !.prompt = prompt]

\* A browser opens the page: a new session, with an empty st.session_state.
NewSession ==
    /\ hist.sid < MaxSessions
    /\ StartRun(NoneV)
    /\ session_state' = NoState
    /\ widget' = FALSE
    /\ hist' = [hist EXCEPT !.sid = @ + 1, !.runs = @ + 1, !.halt = "none",
                            !.sends = 0, !.queries = 0]
    /\ UNCHANGED <<environ, envFile, csvFile, cache, calls, resp, fnArgs>>

\* The framework runs the script again without a submitted message.
Rerun ==
    /\ hist.sid > 0
    /\ StartRun(NoneV)
    /\ hist' = [hist EXCEPT !.runs = @ + 1, !.halt = "none"]
    /\ UNCHANGED <<environ, envFile, csvFile, cache, calls, session_state, widget,
                   resp, fnArgs>>

\* The user submits a message in the chat input bar.
Submit ==
    /\ widget
    /\ \E q \in UserQuestions : StartRun(Str(q))
    /\ hist' = [hist EXCEPT !.runs = @ + 1, !.halt = "none"]
    /\ UNCHANGED <<environ, envFile, csvFile, cache, calls, session_state, widget,
                   resp, fnArgs>>

\* Line 95.
LoadConfig ==
    /\ pc = "load_config"
    /\ IF cache["load_config"].hit
       THEN /\ locals' = [locals EXCEPT !.api_key = cache["load_config"].value]
            /\ pc' = "get_cached_documents"
            /\ UNCHANGED <<environ, cache, calls, widget, hist>>
       ELSE LET o == LoadConfigBody(environ, envFile) IN
            /\ environ' = o.environ
            /\ cache' = Memo(cache, "load_config", o.out)
            /\ calls' = Finished(Entered("load_config"), "load_config", o.out)
            /\ IF o.out.kind = "return"
               THEN /\ locals' = [locals EXCEPT !.api_key = o.out.value]
                    /\ pc' = "get_cached_documents"
                    /\ hist' = [hist EXCEPT !.config = o.out.kind]
                    /\ UNCHANGED widget
               ELSE Halt("load_config", [hist EXCEPT !.config = o.out.kind])
    /\ UNCHANGED <<envFile, csvFile, session_state, resp, fnArgs>>

\* Line 96.
GetCachedDocuments ==
    /\ pc = "get_cached_documents"
    /\ IF cache["get_cached_documents"].hit
       THEN /\ locals' = [locals EXCEPT !.documents = cache["get_cached_documents"].value]
            /\ pc' = "get_cached_retriever"
            /\ UNCHANGED <<cache, calls, widget, hist>>
       ELSE LET out == GetCachedDocumentsBody(csvFile) IN
            /\ cache' = Memo(cache, "get_cached_documents", out)
            /\ calls' = Finished(Entered("get_cached_documents"), "get_cached_documents", out)
            /\ IF out.kind = "return"
               THEN /\ locals' = [locals EXCEPT !.documents = out.value]
                    /\ pc' = "get_cached_retriever"
                    /\ UNCHANGED <<widget, hist>>
               ELSE Halt("get_cached_documents", hist)
    /\ UNCHANGED <<environ, envFile, csvFile, session_state, resp, fnArgs>>

\* Line 97.  The embedding service answers or fails.
GetCachedRetriever ==
    /\ pc = "get_cached_retriever"
    /\ IF cache["get_cached_retriever"].hit
       THEN /\ locals' = [locals EXCEPT !.retriever = cache["get_cached_retriever"].value]
            /\ pc' = "get_cached_chat_session"
            /\ UNCHANGED <<cache, calls, widget, hist>>
       ELSE \E embedOk \in (IF Truthy(locals.documents) THEN BOOLEAN ELSE {TRUE}) :
            LET out == GetCachedRetrieverBody(locals.documents, locals.api_key, embedOk) IN
            /\ cache' = Memo(cache, "get_cached_retriever", out)
            /\ calls' = Finished(Entered("get_cached_retriever"), "get_cached_retriever", out)
            /\ IF out.kind = "return"
               THEN /\ locals' = [locals EXCEPT !.retriever = out.value]
                    /\ pc' = "get_cached_chat_session"
                    /\ hist' = [hist EXCEPT !.retr =
                                   IF ~Truthy(locals.documents) THEN "empty"
                                   ELSE IF embedOk THEN "built" ELSE "failed"]
                    /\ UNCHANGED widget
               ELSE Halt("get_cached_retriever", hist)
    /\ UNCHANGED <<environ, envFile, csvFile, session_state, resp, fnArgs>>

\* Line 98.  The chat service creates the session or fails.
GetCachedChatSession ==
    /\ pc = "get_cached_chat_session"
    /\ IF cache["get_cached_chat_session"].hit
       THEN /\ locals' = [locals EXCEPT !.chat_session = cache["get_cached_chat_session"].value]
            /\ pc' = "messages"
            /\ UNCHANGED <<cache, calls, widget, hist>>
       ELSE \E outcome \in {"ok", "GoogleAPIError", "Exception"} :
            LET out == GetCachedChatSessionBody(locals.api_key, outcome) IN
            /\ cache' = Memo(cache, "get_cached_chat_session", out)
            /\ calls' = Finished(Entered("get_cached_chat_session"),
                                 "get_cached_chat_session", out)
            /\ IF out.kind = "return"
               THEN /\ locals' = [locals EXCEPT !.chat_session = out.value]
                    /\ pc' = "messages"
                    /\ UNCHANGED <<widget, hist>>
               ELSE Halt("get_cached_chat_session", hist)
    /\ UNCHANGED <<environ, envFile, csvFile, session_state, resp, fnArgs>>

\* The transcript initialised without the "not in st.session_state" test.
InitMessages_Always ==
    /\ pc = "messages"
    /\ session_state' =
          WithMessages(<<Message("assistant",
                                 IF Truthy(locals.chat_session) THEN GREETING
                                 ELSE GREETING_ERROR)>>)
    /\ pc' = "chat_input"
    /\ UNCHANGED <<environ, envFile, csvFile, cache, calls, widget, locals, resp, hist,
                   fnArgs>>

\* Lines 103-117: the transcript is created on the session's first complete run.
InitMessages ==
    /\ pc = "messages"
    /\ session_state' =
          IF ~HasMessages
          THEN WithMessages(<<Message("assistant",
                                      IF Truthy(locals.chat_session) THEN GREETING
                                      ELSE GREETING_ERROR)>>)
          ELSE session_state
    /\ pc' = "chat_input"
    /\ UNCHANGED <<environ, envFile, csvFile, cache, calls, widget, locals, resp, hist,
                   fnArgs>>

\* Lines 125-133 and 151-153.
ChatInput ==
    /\ pc = "chat_input"
    /\ IF Truthy(locals.chat_session)
       THEN /\ widget' = TRUE
            /\ IF Truthy(locals.prompt)
               THEN /\ session_state' =
                          WithMessages(Append(Messages, Message("user", locals.prompt.value)))
                    /\ pc' = "respond"
                    /\ UNCHANGED locals
               ELSE /\ pc' = "idle"
                    /\ locals' = NoLocals
                    /\ UNCHANGED session_state
       ELSE /\ widget' = FALSE
            /\ pc' = "idle"
            /\ locals' = NoLocals
            /\ UNCHANGED session_state
    /\ UNCHANGED <<environ, envFile, csvFile, cache, calls, resp, hist, fnArgs>>

Invocation(question, retriever, chat_session, lookup, send) ==
    [called |-> TRUE, question |-> question, retriever |-> retriever,
     chat_session |-> chat_session, lookup |-> lookup, send |-> send,
     out |-> GetBotResponse(question, retriever, chat_session, lookup, send)]

\* Lines 139-146.
Respond ==
    /\ pc = "respond"
    /\ \E lookup \in LookupOutcomes(locals.retriever), send \in SendOutcomes :
          LET r == Invocation(locals.prompt.value, locals.retriever, locals.chat_session,
                              lookup, send)
              h == [hist EXCEPT !.sends = @ + Len(r.out.sent),
                                !.queries = @ + Len(r.out.queries),
                                !.prevFailed = resp.called /\ resp.send.raises]
          IN  /\ resp' = r
              /\ IF r.out.raised
                 THEN /\ Halt("get_bot_response", h)
                      /\ UNCHANGED session_state
                 ELSE /\ session_state' =
                            WithMessages(Append(Messages, Message("assistant", r.out.ret)))
                      /\ pc' = "idle"
                      /\ locals' = NoLocals
                      /\ hist' = h
                      /\ UNCHANGED widget
    /\ UNCHANGED <<environ, envFile, csvFile, cache, calls, fnArgs>>

Next ==
    \/ NewSession
    \/ Rerun
    \/ Submit
    \/ LoadConfig
    \/ GetCachedDocuments
    \/ GetCachedRetriever
    \/ GetCachedChatSession
    \/ InitMessages
    \/ ChatInput
    \/ Respond

Spec == Init /\ [][Next]_vars

-----------------------------------------------------------------------------
(* The functions of projeto_chatbot2.py called on their own, as a test with  *)
(* stand-in retriever and chat session calls them.                           *)

FnQuestions == UserQuestions \cup {<< >>}

FnRetrievers ==
    {NoneV} \cup {Retriever(LoadData(f).value) :
                    f \in {g \in CsvFiles : g.exists /\ g.parses /\ Len(g.rows) > 0}}

FnChats == {NoneV, Chat}

FnSendOutcomes ==
    SendFails({<<"503 UNAVAILABLE">>, << >>})
    \cup SendReplies({<<"Nosso horário é das 9h às 18h.">>, <<"Não encontrei essa informação.">>})

FnInit ==
    /\ environ \in Environs
    /\ envFile \in EnvFiles
    /\ csvFile \in {f \in CsvFiles : ~f.exists}
    /\ cache = [n \in Resources |-> Miss]
    /\ calls = [entered |-> [n \in Resources |-> 0], returned |-> [n \in Resources |-> 0]]
    /\ session_state = NoState
    /\ widget = FALSE
    /\ pc = "idle"
    /\ locals = NoLocals
    /\ resp = NoResp
    /\ hist = [sid |-> 0, runs |-> 0, halt |-> "none", config |-> "none",
               retr |-> "none", sends |-> 0, queries |-> 0, prevFailed |-> FALSE]
    /\ fnArgs \in [question : FnQuestions, retriever : FnRetrievers, chat_session : FnChats]

FnGetBotResponse ==
    /\ \E lookup \in LookupOutcomes(fnArgs.retriever), send \in FnSendOutcomes :
          resp' = Invocation(fnArgs.question, fnArgs.retriever, fnArgs.chat_session,
                             lookup, send)
    /\ UNCHANGED <<environ, envFile, csvFile, cache, calls, session_state, widget, pc,
                   locals, hist, fnArgs>>

FnLoadApiKey ==
    /\ LET o == LoadApiKey(environ, envFile) IN
          /\ environ' = o.environ
          /\ hist' = [hist EXCEPT !.config = o.out.kind]
    /\ UNCHANGED <<envFile, csvFile, cache, calls, session_state, widget, pc, locals,
                   resp, fnArgs>>

FnNext ==
    \/ FnGetBotResponse
    \/ FnLoadApiKey

SpecFn == FnInit /\ [][FnNext]_vars

-----------------------------------------------------------------------------
(* Properties of get_bot_response (specification SpecFn) *)

\* The prompt template of lines 122-137 around a given context block.
ExpectedPrompt(block, question) ==
    <<"\n    Contexto de informações da base de dados:\n    ">> \o block
    \o <<"\n\n    ---\n\n    Pergunta do usuário: ">> \o question \o PROMPT_TAIL

ExpectedSendOutcome(send) ==
    IF send.raises
    THEN <<"Ocorreu um erro", " durante a interação com o modelo de chat: ">> \o send.detail
    ELSE send.text

\* C1: with an absent (falsy) chat session get_bot_response returns exactly the
\* fixed internal-error string, whatever the question and the state of the index
\* (absent, present, present and raising), and makes no lookup and no send.
C1_AbsentSessionFixedError ==
    (resp.called /\ ~Truthy(resp.chat_session)) =>
        /\ resp.out.ret = <<"Erro interno: A sessão do chat não foi inicializada corretamente.">>
        /\ ~resp.out.raised
        /\ resp.out.queries = << >>
        /\ resp.out.sent = << >>

C1_Witness ==
    /\ resp.called
    /\ ~Truthy(resp.chat_session)
    /\ Truthy(resp.retriever)
    /\ resp.lookup.raises
    /\ Len(resp.question) > 0

\* C2: with a chat session whose send raises, get_bot_response does not raise and
\* returns a string that holds "Ocorreu um erro" and, after it, the error detail.
C2_SendFailureReturnsErrorString ==
    (resp.called /\ Truthy(resp.chat_session) /\ resp.send.raises) =>
        LET ret == resp.out.ret
            detail == resp.send.detail
        IN  /\ ~resp.out.raised
            /\ Len(ret) >= Len(detail)
            /\ SubSeq(ret, Len(ret) - Len(detail) + 1, Len(ret)) = detail
            /\ \E i \in 1..(Len(ret) - Len(detail)) : ret[i] = "Ocorreu um erro"

C2_Witness ==
    /\ resp.called
    /\ Truthy(resp.chat_session)
    /\ resp.send.raises
    /\ Len(resp.send.detail) > 0
    /\ Truthy(resp.retriever)

\* C3: with a chat session, when the index is absent or the lookup returns no
\* record, the prompt sent has the placeholder "Nenhum contexto da base de dados
\* encontrado." as its context block, and an absent index is never queried.
C3_NoContextPlaceholder ==
    (/\ resp.called
     /\ Truthy(resp.chat_session)
     /\ \/ ~Truthy(resp.retriever)
        \/ (~resp.lookup.raises /\ Len(resp.lookup.docs) = 0)) =>
        /\ resp.out.sent =
              <<ExpectedPrompt(<<"Nenhum contexto da base de dados encontrado.">>,
                               resp.question)>>
        /\ (~Truthy(resp.retriever) => resp.out.queries = << >>)

C3_Witness ==
    /\ resp.called
    /\ Truthy(resp.chat_session)
    /\ ~Truthy(resp.retriever)
    /\ Len(resp.question) > 0
    /\ Len(resp.out.sent) = 1

\* C4: when the index is present and its lookup raises, the context block is the
\* fixed "could not fetch context" string, not the placeholder; the prompt is
\* still sent exactly once and the call returns that send's outcome, not raising.
C4_LookupFailureDegrades ==
    (/\ resp.called
     /\ Truthy(resp.chat_session)
     /\ Truthy(resp.retriever)
     /\ resp.lookup.raises) =>
        /\ ~resp.out.raised
        /\ resp.out.queries = <<resp.question>>
        /\ resp.out.sent =
              <<ExpectedPrompt(<<"Não foi possível buscar contexto na base de dados devido a um erro.">>,
                               resp.question)>>
        /\ ~Contains(resp.out.sent[1], <<"Nenhum contexto da base de dados encontrado.">>)
        /\ resp.out.ret = ExpectedSendOutcome(resp.send)

C4_Witness ==
    /\ resp.called
    /\ Truthy(resp.chat_session)
    /\ Truthy(resp.retriever)
    /\ resp.lookup.raises
    /\ ~resp.send.raises

\* The texts of the first n records, in order, with the separator between them.
RECURSIVE Interleaved(_, _)
Interleaved(docs, n) ==
    IF n = 0 THEN << >>
    ELSE Interleaved(docs, n - 1) \o (IF n = 1 THEN << >> ELSE <<"\n---\n">>)
         \o docs[n].page_content

\* C5: when the lookup returns a non-empty list of records, the context block of
\* the prompt sent is the texts of exactly those records, in the order returned,
\* joined by "\n---\n"; every record's text and the question are in the prompt.
C5_ContextIsJoinedRecords ==
    (/\ resp.called
     /\ Truthy(resp.chat_session)
     /\ Truthy(resp.retriever)
     /\ ~resp.lookup.raises
     /\ Len(resp.lookup.docs) > 0) =>
        LET docs == resp.lookup.docs IN
        /\ resp.out.queries = <<resp.question>>
        /\ resp.out.sent = <<ExpectedPrompt(Interleaved(docs, Len(docs)), resp.question)>>
        /\ \A i \in 1..Len(docs) : Contains(resp.out.sent[1], docs[i].page_content)
        /\ Contains(resp.out.sent[1], resp.question)

C5_Witness ==
    /\ resp.called
    /\ Truthy(resp.chat_session)
    /\ Truthy(resp.retriever)
    /\ ~resp.lookup.raises
    /\ Len(resp.lookup.docs) = 2
    /\ resp.lookup.docs[1] = resp.retriever.docs[2]
    /\ Len(resp.question) > 0

-----------------------------------------------------------------------------
(* Properties of the script index.py (specification Spec) *)

\* The credential the two sources hold: the environment variable when it is set
\* and not empty, else the value in the .env file.
ResolvedCredential(env, file) ==
    IF KEY \in DOMAIN env /\ Len(env[KEY]) > 0 THEN env[KEY]
    ELSE IF file.exists /\ KEY \in DOMAIN file.vars THEN file.vars[KEY]
    ELSE << >>

\* C6: load_config returns the credential whenever the environment variable or the
\* .env file holds a non-empty one, ends the run (never returning) when neither
\* does, and never returns an empty credential.  Any early end of the run, by
\* st.stop() or by an exception, is counted here as the fatal stop.
C6_ConfigResolvesFromEitherSource ==
    hist.config # "none" =>
        LET credential == ResolvedCredential(environ, envFile) IN
        IF Len(credential) > 0
        THEN /\ hist.config = "return"
             /\ cache["load_config"].hit
             /\ cache["load_config"].value = Str(credential)
        ELSE hist.config # "return"

TranscriptShape ==
    HasMessages =>
        /\ Len(Messages) >= 1
        /\ Messages[1] = Message("assistant", <<"Olá! Como posso ajudar hoje?">>)
        /\ \A i \in 2..Len(Messages) :
              Messages[i].role = (IF i % 2 = 0 THEN "user" ELSE "assistant")
        /\ (Len(Messages) % 2 = 0) <=> (pc = "respond")

\* C7: within a session the transcript only grows: the transcript before a step is
\* a prefix of the transcript after it, a step adds at most one entry and only a
\* running script adds one; the entries are the assistant greeting followed by a
\* user entry and an assistant entry for each submitted message.
C7_TranscriptAppendOnly ==
    /\ []TranscriptShape
    /\ [][hist'.sid = hist.sid =>
            /\ IsPrefix(Messages, Messages')
            /\ Len(Messages') <= Len(Messages) + 1
            /\ (HasMessages => HasMessages')
            /\ (Messages' # Messages => pc \in {"messages", "chat_input", "respond"})]_vars

C7_Witness ==
    /\ pc = "idle"
    /\ HasMessages
    /\ Len(Messages) = 5
    /\ hist.sid = 1

Constructions == {"load_config", "get_cached_retriever", "get_cached_chat_session"}

\* C8 as stated: the construction call of the credential, of the index and of the
\* chat session is never executed a second time in one process, also after a run
\* in which it failed or halted.  Stated for the processes whose environment
\* holds the credential, where load_config returns on its first call.
C8_ConstructedAtMostOnce ==
    Truthy(EnvironGet(environ, KEY)) => \A n \in Constructions : calls.entered[n] <= 1

\* C8 amended: each resource is successfully constructed at most once: a
\* construction call that has returned is memoized and never executed again,
\* while one that raised or stopped the script is not memoized and is executed
\* again by the next run that reaches it.
C8_ReturnedConstructionNeverRepeated ==
    /\ [](\A n \in Resources :
            /\ calls.returned[n] <= 1
            /\ cache[n].hit <=> (calls.returned[n] = 1))
    /\ [][\A n \in Resources :
            /\ (calls.returned[n] >= 1 => calls'.entered[n] = calls.entered[n])
            /\ (pc = n /\ calls.returned[n] = 0 => calls'.entered[n] = calls.entered[n] + 1)]_vars

C8_Witness ==
    /\ calls.entered["get_cached_chat_session"] = 2
    /\ calls.returned["get_cached_chat_session"] = 1
    /\ calls.entered["get_cached_retriever"] = 1
    /\ hist.runs = 3
    /\ pc = "chat_input"

\* C9: a failed send costs one turn only: the turn's reply in the transcript is the
\* error string, the cached chat session and index stay as they were, the input
\* bar stays on the page, and every submitted message, also the one after a
\* failure, goes through exactly one send.
C9_SendFailureIsPerTurn ==
    /\ [](pc = "idle" /\ HasMessages => 2 * hist.sends = Len(Messages) - 1)
    /\ [][pc = "respond" =>
            /\ cache' = cache
            /\ hist'.sends = hist.sends + 1
            /\ Len(resp'.out.sent) = 1
            /\ pc' = "idle"
            /\ widget'
            /\ Messages' = Append(Messages, Message("assistant", ExpectedSendOutcome(resp'.send)))
            /\ resp'.retriever = cache["get_cached_retriever"].value
            /\ resp'.chat_session = cache["get_cached_chat_session"].value]_vars

C9_Witness ==
    /\ pc = "idle"
    /\ hist.prevFailed
    /\ resp.called
    /\ ~resp.send.raises
    /\ Messages[Len(Messages)].content = resp.send.text
    /\ Messages[Len(Messages) - 2].content[1] = "Ocorreu um erro"

\* C10: building the index never ends the run: with no records, or when the
\* embedding or the vector store fails, the index is absent (otherwise it holds
\* every record), the run goes on, and messages are answered through the chat
\* session with the "no context found" placeholder and without a lookup.
C10_IndexFailureIsNotFatal ==
    /\ hist.halt # "get_cached_retriever"
    /\ \A embedOk \in BOOLEAN :
          InitializeRetriever(<< >>, locals.api_key, embedOk) = Return(NoneV)
    /\ hist.retr # "none" =>
          /\ cache["get_cached_retriever"].hit
          /\ cache["get_cached_documents"].hit
          /\ (hist.retr = "empty") <=> (Len(cache["get_cached_documents"].value.items) = 0)
          /\ cache["get_cached_retriever"].value =
                (IF hist.retr = "built"
                 THEN Retriever(cache["get_cached_documents"].value.items)
                 ELSE NoneV)
    /\ (hist.retr \in {"empty", "failed"} /\ resp.called) =>
          /\ resp.out.queries = << >>
          /\ resp.out.sent =
                <<ExpectedPrompt(<<"Nenhum contexto da base de dados encontrado.">>,
                                 resp.question)>>
          /\ resp.out.ret = ExpectedSendOutcome(resp.send)

C10_Witness ==
    /\ hist.retr = "failed"
    /\ pc = "idle"
    /\ resp.called
    /\ ~resp.send.raises
    /\ Len(Messages) = 3

====
